---- MODULE Spec2Model ----
(***************************************************************************)
(* Model of the TTL cache of src/src/cache.rs: Cache<T>, CacheValue<T>,    *)
(* CacheOption<T> and the clock time_now().                                *)
(*                                                                         *)
(* u128 is scaled down to the range 0..MaxWord; additions keep the width   *)
(* (they wrap modulo MaxWord + 1, or panic when the build checks for       *)
(* overflow).                                                              *)
(***************************************************************************)
EXTENDS Integers, Sequences, FiniteSets, TLC

\* Largest value of the (scaled-down) u128 word.
MaxWord == 3
Modulus == MaxWord + 1
Word == 0..MaxWord

\* Connections the listener accepts and requests one connection carries.
MaxConns == 2
MaxRequests == 2

\* Remote addresses of the clients.
IPs == {"ip1", "ip2"}

\* Keys (String) and payloads (T) the callers use.
Keys == {"a", "b"}
Values == {"v1", "v2"}

VARIABLES
    items,            \* Cache.items : HashMap<String, Option<CacheValue<T>>>
    ttl,              \* Cache.ttl
    now,              \* the wall clock read by time_now(), in milliseconds
    owned,            \* TRUE while the caller still owns the cache (get takes self by value)
    overflow_checks,  \* build profile: TRUE = overflow panics (debug), FALSE = it wraps (release)
    fault,            \* "none", or the panic that aborted the caller
    result,           \* <<>> or <<r>>: what the one call of get looked up and returned
    hist,             \* per key: the last create/update/remove/clean applied to it
    call,             \* <<>> or <<c>>: the unwrap / unwrap_or call that consumed the outcome of get
    conns,            \* http_server: the connections accepted by the listener, in order
    calls             \* http_server: the calls handler.init(request, ip) made so far

vars == <<items, ttl, now, owned, overflow_checks, fault, result, hist, call, conns, calls>>

----
\* Option<T>
None == <<>>
Some(x) == <<x>>
is_some(o) == Len(o) = 1
is_none(o) == Len(o) = 0
inner(o) == o[1]

\* enum CacheOption<T>
Value(v) == [tag |-> "Value", value |-> v]
Empty == [tag |-> "Empty", value |-> "-"]
Undefined == [tag |-> "Undefined", value |-> "-"]
Expired == [tag |-> "Expired", value |-> "-"]

is_value(o) == o.tag = "Value"
is_empty(o) == o.tag = "Empty"
is_undefined(o) == o.tag = "Undefined"
is_expired(o) == o.tag = "Expired"

\* CacheOption::unwrap panicking only when there is no entry to speak of
unwrap_panics_lenient(o) == ~is_value(o) /\ ~is_empty(o)

\* CacheOption::unwrap: the else branch panics
unwrap_panics(o) == ~is_value(o)
unwrap(o) == o.value

\* CacheOption::unwrap_or with the two branches exchanged
unwrap_or_swapped(o, or) == IF is_value(o) THEN or ELSE o.value

\* CacheOption::unwrap_or
unwrap_or(o, or) == IF is_value(o) THEN o.value ELSE or

\* fn time_now() -> u128
time_now == now

\* u128 addition: does it overflow, and what it wraps to when unchecked
add_overflows(a, b) == a + b > MaxWord
wrapping_add(a, b) == (a + b) % Modulus

\* CacheValue::new with the deadline one millisecond late
CacheValue_new_late(value, t) ==
    [value |-> value, ttl_timestamp |-> wrapping_add(t, time_now) + 1]

\* CacheValue::new(value, ttl)
CacheValue_new(value, t) ==
    [value |-> value, ttl_timestamp |-> wrapping_add(t, time_now)]

\* HashMap
EmptyMap == [k \in {} |-> None]
contains_key(m, key) == key \in DOMAIN m
map_get(m, key) == IF contains_key(m, key) THEN Some(m[key]) ELSE None
map_insert(m, key, slot) ==
    [k \in DOMAIN m \cup {key} |-> IF k = key THEN slot ELSE m[k]]
map_remove(m, key) == [k \in DOMAIN m \ {key} |-> m[k]]

\* Cache::create keeping the slot of a key already present
create_keep(m, key) == IF contains_key(m, key) THEN m ELSE map_insert(m, key, None)

\* Cache::create
create(m, key) == map_insert(m, key, None)

\* Cache::update
update(m, key, value, t) ==
    IF contains_key(m, key)
    THEN map_insert(m, key, Some(CacheValue_new(value, t)))
    ELSE create(m, key)

\* Cache::get with a strict comparison of the deadline
get_strict(m, key) ==
    IF contains_key(m, key)
    THEN IF is_some(m[key])
         THEN IF inner(m[key]).ttl_timestamp > time_now
              THEN Value(inner(m[key]).value)
              ELSE Expired
         ELSE Empty
    ELSE Undefined

\* Cache::get with the arms of the two empty cases exchanged
get_swapped(m, key) ==
    IF contains_key(m, key)
    THEN IF is_some(m[key])
         THEN IF inner(m[key]).ttl_timestamp >= time_now
              THEN Value(inner(m[key]).value)
              ELSE Expired
         ELSE Undefined
    ELSE Empty

\* Cache::get classifying a slot without value by the clock
get_empty_expires(m, key) ==
    IF contains_key(m, key)
    THEN IF is_some(m[key])
         THEN IF inner(m[key]).ttl_timestamp >= time_now
              THEN Value(inner(m[key]).value)
              ELSE Expired
         ELSE IF time_now > 0 THEN Expired ELSE Empty
    ELSE Undefined

\* Cache::get taking a value for expired only in the millisecond after its deadline
get_expired_once(m, key) ==
    IF contains_key(m, key)
    THEN IF is_some(m[key])
         THEN IF inner(m[key]).ttl_timestamp + 1 # time_now
              THEN Value(inner(m[key]).value)
              ELSE Expired
         ELSE Empty
    ELSE Undefined

\* Cache::get
get(m, key) ==
    IF contains_key(m, key)
    THEN IF is_some(m[key])
         THEN IF inner(m[key]).ttl_timestamp >= time_now
              THEN Value(inner(m[key]).value)
              ELSE Expired
         ELSE Empty
    ELSE Undefined

\* Cache::remove emptying the whole mapping
remove_all(m, key) == EmptyMap

\* Cache::remove that only drops the value of a key holding one
remove_value_only(m, key) ==
    IF contains_key(m, key) /\ is_some(m[key])
    THEN map_insert(m, key, None)
    ELSE map_remove(m, key)

\* Cache::remove
remove(m, key) == map_remove(m, key)

\* Cache::clean leaving the slot as it is
clean_skip(m, key) == m

\* Cache::clean without the presence test
clean_insert(m, key) == map_insert(m, key, None)

\* Cache::clean
clean(m, key) ==
    IF contains_key(m, key) THEN map_insert(m, key, None) ELSE m

----
\* History kept per key: the last operation applied to the key and the one
\* before it, the slot the last one found, its value argument, the clock it
\* sampled (update only) and whether update was ever called on the key.
SlotKind(m, key) ==
    IF ~contains_key(m, key) THEN "absent"
    ELSE IF is_none(m[key]) THEN "empty"
    ELSE IF inner(m[key]).ttl_timestamp >= now THEN "fresh" ELSE "stale"

NoHist == [op |-> "none", prev |-> "none", pre |-> "absent", val |-> "-", at |-> 0,
           written |-> FALSE]
Did(op, key, val, at) ==
    [hist EXCEPT ![key] = [op |-> op, prev |-> hist[key].op, pre |-> SlotKind(items, key),
                           val |-> val, at |-> at,
                           written |-> hist[key].written \/ op = "update"]]

Running == owned /\ fault = "none"

Init ==
    /\ items = EmptyMap
    /\ ttl \in Word
    /\ now \in Word
    /\ owned = TRUE
    /\ overflow_checks \in BOOLEAN
    /\ fault = "none"
    /\ result = None
    /\ hist = [k \in Keys |-> NoHist]
    /\ call = None
    /\ conns = <<>>
    /\ calls = <<>>

\* cache.create(key)
Create(key) ==
    /\ Running
    /\ items' = create(items, key)
    /\ hist' = Did("create", key, "-", 0)
    /\ UNCHANGED <<ttl, now, owned, overflow_checks, fault, result, call, conns, calls>>

\* cache.update(&key, value), the addition ttl + time_now() not overflowing,
\* or wrapping in a build without overflow checks
UpdateStore(key, value) ==
    /\ Running
    /\ ~(contains_key(items, key) /\ add_overflows(ttl, time_now) /\ overflow_checks)
    /\ items' = update(items, key, value, ttl)
    /\ hist' = Did("update", key, value, now)
    /\ UNCHANGED <<ttl, now, owned, overflow_checks, fault, result, call, conns, calls>>

\* cache.update(&key, value), the addition panicking: the slot is not assigned
UpdatePanic(key, value) ==
    /\ Running
    /\ contains_key(items, key) /\ add_overflows(ttl, time_now) /\ overflow_checks
    /\ fault' = "add_overflow"
    /\ UNCHANGED <<items, ttl, now, owned, overflow_checks, result, hist, call, conns, calls>>

Update(key, value) == UpdateStore(key, value) \/ UpdatePanic(key, value)

\* cache.get(&key): takes the cache by value, so the cache is dropped on return
Get(key) ==
    /\ Running
    /\ result' = Some([key |-> key, slot |-> map_get(items, key), at |-> now,
                       out |-> get(items, key)])
    /\ owned' = FALSE
    /\ items' = EmptyMap
    /\ UNCHANGED <<ttl, now, overflow_checks, fault, hist, call, conns, calls>>

\* cache.remove(&key)
Remove(key) ==
    /\ Running
    /\ items' = remove(items, key)
    /\ hist' = Did("remove", key, "-", 0)
    /\ UNCHANGED <<ttl, now, owned, overflow_checks, fault, result, call, conns, calls>>

\* cache.clean(&key)
Clean(key) ==
    /\ Running
    /\ items' = clean(items, key)
    /\ hist' = Did("clean", key, "-", 0)
    /\ UNCHANGED <<ttl, now, owned, overflow_checks, fault, result, call, conns, calls>>

\* the wall clock advances (sleep, or time passing between calls)
Tick ==
    /\ fault = "none"
    /\ now < MaxWord
    /\ now' = now + 1
    /\ UNCHANGED <<items, ttl, owned, overflow_checks, fault, result, hist, call, conns, calls>>

\* the outcome of get, held by the caller until unwrap or unwrap_or consumes it
HasOutcome == result # None /\ call = None /\ fault = "none"

\* cache.get(&key).unwrap() on a Value
UnwrapValue ==
    /\ HasOutcome
    /\ ~unwrap_panics(inner(result).out)
    /\ call' = Some([fn |-> "unwrap", or |-> "-", ret |-> Some(unwrap(inner(result).out))])
    /\ UNCHANGED <<items, ttl, now, owned, overflow_checks, fault, result, hist, conns, calls>>

\* cache.get(&key).unwrap() on any other outcome: panic!("There is no value for unwrap.")
UnwrapPanic ==
    /\ HasOutcome
    /\ unwrap_panics(inner(result).out)
    /\ fault' = "MissingValue"
    /\ call' = Some([fn |-> "unwrap", or |-> "-", ret |-> None])
    /\ UNCHANGED <<items, ttl, now, owned, overflow_checks, result, hist, conns, calls>>

Unwrap == UnwrapValue \/ UnwrapPanic

\* cache.get(&key).unwrap_or(or)
UnwrapOr(or) ==
    /\ HasOutcome
    /\ call' = Some([fn |-> "unwrap_or", or |-> or, ret |-> Some(unwrap_or(inner(result).out, or))])
    /\ UNCHANGED <<items, ttl, now, owned, overflow_checks, fault, result, hist, conns, calls>>

Next ==
    \/ \E key \in Keys : Create(key)
    \/ \E key \in Keys, value \in Values : UpdateStore(key, value)
    \/ \E key \in Keys, value \in Values : UpdatePanic(key, value)
    \/ \E key \in Keys : Get(key)
    \/ \E key \in Keys : Remove(key)
    \/ \E key \in Keys : Clean(key)
    \/ UnwrapValue
    \/ UnwrapPanic
    \/ \E or \in Values : UnwrapOr(or)
    \/ Tick

Spec == Init /\ [][Next]_vars

----
\* runtime/src/http_server.rs: server(port, handler)
cache_vars == <<items, ttl, now, owned, overflow_checks, fault, result, hist, call>>

\* service_fn(move |req| handler.init(req, ip.clone())): the closure and the ip it captured
service_fn(ip) == [ip |-> ip]

\* async move { Ok::<_, Infallible>(service_fn(..)); }: the statement ends in
\* a semicolon, so the service is built and dropped and the block yields ()
make_service_output(ip) ==
    LET dropped == service_fn(ip) IN None

\* the listener accepts a connection and calls the make_service_fn closure,
\* which reads conn.remote_addr().ip() and returns the async block
Accept(remote) ==
    /\ Len(conns) < MaxConns
    /\ conns' = Append(conns, [remote |-> remote, ip |-> remote, polled |-> FALSE,
                               service |-> None, received |-> 0])
    /\ UNCHANGED <<cache_vars, calls>>

\* the async block of a connection runs to completion
MakeService(c) ==
    /\ c \in DOMAIN conns
    /\ ~conns[c].polled
    /\ conns' = [conns EXCEPT ![c].polled = TRUE,
                              ![c].service = make_service_output(conns[c].ip)]
    /\ UNCHANGED <<cache_vars, calls>>

\* a request arrives on a connection: it goes to the service of the
\* connection, which calls handler.init(req, ip) with the ip it captured
Request(c) ==
    /\ c \in DOMAIN conns
    /\ conns[c].polled
    /\ conns[c].received < MaxRequests
    /\ conns' = [conns EXCEPT ![c].received = @ + 1]
    /\ calls' = IF is_some(conns[c].service)
                THEN Append(calls, [conn |-> c, req |-> conns[c].received + 1,
                                    ip |-> inner(conns[c].service).ip])
                ELSE calls
    /\ UNCHANGED cache_vars

HttpNext ==
    \/ \E remote \in IPs : Accept(remote)
    \/ \E c \in 1..MaxConns : MakeService(c)
    \/ \E c \in 1..MaxConns : Request(c)

HttpSpec == Init /\ [][HttpNext]_vars

\* The program working on one key only (what it does to one key leaves the
\* others alone), with a clock that keeps advancing whatever the program does.
LiveKeys == {"a"}

FairNext ==
    \/ \E key \in LiveKeys : Create(key)
    \/ \E key \in LiveKeys, value \in Values : UpdateStore(key, value)
    \/ \E key \in LiveKeys, value \in Values : UpdatePanic(key, value)
    \/ \E key \in LiveKeys : Get(key)
    \/ \E key \in LiveKeys : Remove(key)
    \/ \E key \in LiveKeys : Clean(key)
    \/ UnwrapValue
    \/ UnwrapPanic
    \/ \E or \in Values : UnwrapOr(or)
    \/ Tick

FairSpec == Init /\ [][FairNext]_vars /\ WF_vars(Tick)

TypeOK ==
    /\ DOMAIN items \subseteq Keys
    /\ ttl \in Word /\ now \in Word
    /\ owned \in BOOLEAN
    /\ fault \in {"none", "add_overflow", "MissingValue"}
    /\ Len(result) <= 1
    /\ Len(call) <= 1

----
\* The call of get, when it has happened, and the history of the key it read.
HasRead == result # None
Read == inner(result)
ReadHist == hist[Read.key]

\* C1: round trip: after declare(k) then write(k, v) at clock w, a read of k
\* at clock r with w <= r and r - w <= ttl, nothing else done to k in
\* between, returns Value(v).
C1_RoundTrip ==
    HasRead =>
        ((/\ ReadHist.op = "update"
          /\ ReadHist.prev = "create"
          /\ ReadHist.at <= Read.at
          /\ Read.at - ReadHist.at <= ttl)
         => Read.out = Value(ReadHist.val))

\* C2: write(k, v) on a key absent from the mapping leaves the slot of k
\* Declared with value v and deadline now + ttl, and a read with no time
\* elapsed returns Value(v).
C2_WriteOnAbsentStores ==
    /\ \A k \in Keys :
        (owned /\ hist[k].op = "update" /\ hist[k].pre = "absent")
        => /\ contains_key(items, k)
           /\ is_some(items[k])
           /\ inner(items[k]).value = hist[k].val
           /\ inner(items[k]).ttl_timestamp = hist[k].at + ttl
    /\ HasRead =>
        ((ReadHist.op = "update" /\ ReadHist.pre = "absent" /\ Read.at = ReadHist.at)
         => Read.out = Value(ReadHist.val))

\* C3: expiry boundary: a read of a slot holding a timed value returns Value
\* (with the stored payload) exactly when deadline >= clock and Expired
\* exactly when deadline < clock; at clock = deadline it is Value.
C3_ExpiryBoundary ==
    (HasRead /\ is_some(Read.slot) /\ is_some(inner(Read.slot))) =>
        LET tv == inner(inner(Read.slot)) IN
        /\ (tv.ttl_timestamp >= Read.at) <=> (Read.out = Value(tv.value))
        /\ (tv.ttl_timestamp < Read.at) <=> (Read.out = Expired)

C3_Witness ==
    /\ HasRead /\ is_some(Read.slot) /\ is_some(inner(Read.slot))
    /\ inner(inner(Read.slot)).ttl_timestamp = Read.at
    /\ is_value(Read.out)

\* C4: a value written to a declared key at clock w and read at clock r with
\* r - w > ttl (for ttl = 0: any r > w), with no write in between, is Expired.
C4_ExpiredAfterTtl ==
    HasRead =>
        ((/\ ReadHist.op = "update"
          /\ ReadHist.pre # "absent"
          /\ Read.at - ReadHist.at > ttl)
         => Read.out = Expired)

C4_Witness ==
    /\ HasRead
    /\ ttl = 0
    /\ ReadHist.op = "update" /\ ReadHist.pre # "absent"
    /\ Read.at > ReadHist.at
    /\ Read.out = Expired

\* C5: read(k) is Undefined if and only if k is absent from the mapping; on
\* a cache nothing was done to, every read is Undefined.
C5_UndefinedIffAbsent ==
    HasRead =>
        /\ is_undefined(Read.out) <=> is_none(Read.slot)
        /\ is_undefined(Read.out) <=> (ReadHist.op = "remove"
                                        \/ (ReadHist.op \in {"none", "clean"}
                                            /\ ReadHist.pre = "absent"))
        /\ (\A k \in Keys : hist[k].op = "none") => is_undefined(Read.out)

C5_Witness ==
    /\ HasRead
    /\ \A k \in Keys : hist[k].op = "none"
    /\ Read.at > 0
    /\ is_undefined(Read.out)

\* C6: a key that was declared and never written (and is not removed) reads
\* Empty at every later clock, whatever the ttl.
C6_DeclaredNeverWrittenIsEmpty ==
    HasRead =>
        ((/\ ~ReadHist.written
          /\ \/ ReadHist.op = "create"
             \/ ReadHist.op = "clean" /\ ReadHist.pre = "empty")
         => Read.out = Empty)

C6_Witness ==
    /\ HasRead
    /\ ~ReadHist.written /\ ReadHist.op = "create"
    /\ ttl = 0 /\ Read.at > 0
    /\ Read.out = Empty

\* C7: declare is an idempotent reset: whatever the slot of k was, after
\* declare(k) it is DeclaredEmpty (a stored value is lost) and read(k) is
\* Empty; declaring twice gives the state declaring once gives.
C7_DeclareResets ==
    /\ \A k \in Keys :
        /\ (owned /\ hist[k].op = "create") => (contains_key(items, k) /\ items[k] = None)
        /\ owned => create(create(items, k), k) = create(items, k)
    /\ HasRead => (ReadHist.op = "create" => Read.out = Empty)

C7_Witness ==
    /\ HasRead
    /\ ReadHist.op = "create" /\ ReadHist.pre = "fresh"
    /\ Read.out = Empty

\* C8: after remove(k) the key is absent from the mapping, whatever its slot
\* was, and read(k) is Undefined until the next declare or write on k.
C8_RemoveMakesUndefined ==
    /\ \A k \in Keys : (owned /\ hist[k].op = "remove") => ~contains_key(items, k)
    /\ HasRead => (ReadHist.op = "remove" => Read.out = Undefined)

C8_Witness ==
    /\ HasRead
    /\ ReadHist.op = "remove" /\ ReadHist.pre = "fresh"
    /\ Read.out = Undefined

\* C9: after clear(k) on a present key the slot is DeclaredEmpty and read(k)
\* is Empty; a write(k, v) after it restores a fresh value: a read with no
\* time elapsed returns Value(v).
C9_ClearThenWrite ==
    /\ \A k \in Keys :
        (owned /\ hist[k].op = "clean" /\ hist[k].pre # "absent")
        => (contains_key(items, k) /\ items[k] = None)
    /\ HasRead =>
        /\ (ReadHist.op = "clean" /\ ReadHist.pre # "absent") => Read.out = Empty
        /\ (ReadHist.op = "update" /\ ReadHist.prev = "clean" /\ ReadHist.pre = "empty"
            /\ Read.at = ReadHist.at)
           => Read.out = Value(ReadHist.val)

\* C10: clear(k) on a key absent from the mapping changes neither the
\* mapping nor the ttl: k is still absent and read(k) is still Undefined.
C10_ClearAbsentNoOp ==
    /\ [](\A k \in Keys :
            (owned /\ hist[k].op = "clean" /\ hist[k].pre = "absent")
            => ~contains_key(items, k))
    /\ [](HasRead => ((ReadHist.op = "clean" /\ ReadHist.pre = "absent")
                      => Read.out = Undefined))
    /\ [][\A k \in Keys :
            (hist'[k] # hist[k] /\ hist'[k].op = "clean" /\ hist'[k].pre = "absent")
            => (items' = items /\ ttl' = ttl)]_vars

C10_Witness ==
    /\ HasRead
    /\ ReadHist.op = "clean" /\ ReadHist.pre = "absent" /\ ReadHist.prev = "remove"
    /\ Read.out = Undefined

\* C11: read is non-mutating and leaves the cache usable: a step that reads
\* a key leaves the mapping and the ttl as they were, and the caller still
\* owns the cache, so that further operations (a second read too) are possible.
C11_ReadLeavesCacheUsable ==
    [][(~HasRead /\ HasRead') => (items' = items /\ ttl' = ttl /\ owned')]_vars

\* The call that consumed the outcome of the read, when it has happened.
HasCall == call # None
Call == inner(call)

\* C12: unwrap_or(default) on a read outcome returns the payload v when the
\* outcome is Value(v), and default when it is Empty, Undefined or Expired.
C12_UnwrapOr ==
    (HasCall /\ Call.fn = "unwrap_or") =>
        /\ Read.out.tag = "Value" => Call.ret = Some(Read.out.value)
        /\ Read.out.tag \in {"Empty", "Undefined", "Expired"} => Call.ret = Some(Call.or)
        /\ fault = "none"

C12_Witness ==
    /\ HasCall /\ Call.fn = "unwrap_or"
    /\ Read.out = Expired
    /\ Call.ret = Some(Call.or)

\* C13: unwrap() on a read outcome raises the MissingValue fault if and only
\* if the outcome is not Value; on Value(v) it returns v; nothing else
\* raises that fault.
C13_UnwrapFault ==
    /\ fault = "MissingValue" <=>
          (HasCall /\ Call.fn = "unwrap" /\ Read.out.tag \in {"Empty", "Undefined", "Expired"})
    /\ (HasCall /\ Call.fn = "unwrap" /\ Read.out.tag = "Value") =>
          Call.ret = Some(Read.out.value)

C13_Witness ==
    /\ fault = "MissingValue"
    /\ HasCall /\ Call.fn = "unwrap"
    /\ Read.out = Empty

\* C14: declare, write, remove and clear are total: whatever the key, its
\* slot, the clock and the ttl, none of them faults, the addition now + ttl
\* of write included.
C14_MutatorsTotal == fault # "add_overflow"

\* The slot of key k holds a timed value.
Holds(k) == owned /\ contains_key(items, k) /\ is_some(items[k])

\* C15: every stored timed value has a deadline equal to the clock of the
\* write that stored it plus the ttl of the constructor; no operation
\* changes the ttl or the deadline of a value already stored.
C15_DeadlineInvariant ==
    /\ [](\A k \in Keys :
            Holds(k) => /\ hist[k].op = "update"
                        /\ inner(items[k]).ttl_timestamp = hist[k].at + ttl)
    /\ [][ttl' = ttl]_vars
    /\ [][\A k \in Keys :
            (Holds(k) /\ Holds(k)' /\ hist'[k] = hist[k]) => items'[k] = items[k]]_vars

\* C16: write(k, v2) on a key holding a timed value v1, fresh or expired,
\* replaces it and recomputes the deadline from the current clock: a read
\* right after the write is Value(v2), and no later read returns v1.
C16_OverwriteRefreshes ==
    HasRead =>
        ((ReadHist.op = "update" /\ ReadHist.pre \in {"fresh", "stale"})
         => /\ Read.at = ReadHist.at => Read.out = Value(ReadHist.val)
            /\ is_value(Read.out) => Read.out.value = ReadHist.val)

\* C17: whenever read(k) returns Value(v), the last declare/write/clear/
\* remove applied to k was write(k, v), and it happened at most ttl before
\* the read.
C17_NoStaleOrForeignValue ==
    (HasRead /\ is_value(Read.out)) =>
        /\ ReadHist.op = "update"
        /\ ReadHist.val = Read.out.value
        /\ ReadHist.at <= Read.at
        /\ Read.at - ReadHist.at <= ttl

C17_Witness ==
    /\ HasRead /\ is_value(Read.out)
    /\ ReadHist.op = "update" /\ ReadHist.prev = "clean"
    /\ Read.at - ReadHist.at = ttl /\ ttl > 0
    /\ \E k \in Keys : k # Read.key /\ hist[k].op = "update" /\ hist[k].val # Read.out.value

\* C18: per-key isolation: declare, write, clear and remove on k change at
\* most the entry of k; every other key keeps its presence, slot, value and
\* deadline, and reads the same at the same clock.
C18_PerKeyIsolation ==
    [][\A k \in Keys :
         hist'[k] # hist[k] =>
            \A other \in Keys \ {k} :
               /\ map_get(items', other) = map_get(items, other)
               /\ get(items', other) = get(items, other)
               /\ now' = now]_vars

C18_Witness ==
    \E k \in Keys : \E other \in Keys \ {k} :
        /\ hist[k].op = "remove" /\ hist[k].pre = "fresh"
        /\ hist[other].op = "update"
        /\ Holds(other)
        /\ inner(items[other]).value = hist[other].val
        /\ get(items, other) = Value(hist[other].val)

\* The slot of key k holds a timed value of deadline d.
HoldsUntil(k, d) == Holds(k) /\ inner(items[k]).ttl_timestamp = d

\* What read(k) would classify the slot of k as, at the present clock.
Classified(k) == get(items, k)

\* once read(k) is Expired it stays Expired while nothing is done to k
ExpiredIsStable ==
    [][\A k \in Keys :
         (Holds(k) /\ Classified(k) = Expired /\ Holds(k)' /\ items'[k] = items[k])
         => Classified(k)' = Expired]_vars

\* C19 as stated: a value written to k, the clock advancing and nothing
\* else touching k, is eventually classified Expired by read(k), and once
\* Expired it stays Expired.
C19_ExpiryEventualAndStable ==
    /\ \A k \in Keys : \A d \in Word :
          HoldsUntil(k, d) ~> (~HoldsUntil(k, d) \/ fault # "none" \/ Classified(k) = Expired)
    /\ ExpiredIsStable

\* C19 amended: a value written to k with a deadline below the largest value
\* of the clock, the clock advancing and nothing else touching k, is
\* eventually classified Expired by read(k); and once Expired it stays Expired.
C19_ExpiryBelowClockLimit ==
    /\ \A k \in Keys : \A d \in Word :
          (HoldsUntil(k, d) /\ d < MaxWord)
          ~> (~HoldsUntil(k, d) \/ fault # "none" \/ Classified(k) = Expired)
    /\ ExpiredIsStable

C19_Witness ==
    \E k \in Keys :
        /\ Holds(k)
        /\ hist[k].op = "update" /\ hist[k].at < now
        /\ ttl > 0
        /\ inner(items[k]).ttl_timestamp = hist[k].at + ttl
        /\ Classified(k) = Expired

\* the calls of the handler made for request number r of connection c
CallsFor(c, r) == {i \in DOMAIN calls : calls[i].conn = c /\ calls[i].req = r}

\* C20: for every request received on every accepted connection the handler
\* is invoked exactly once, with that request and with the remote address of
\* the connection the request arrived on.
C20_HandlerOncePerRequest ==
    \A c \in DOMAIN conns : \A r \in 1..conns[c].received :
        /\ Cardinality(CallsFor(c, r)) = 1
        /\ \A i \in CallsFor(c, r) : calls[i].ip = conns[c].remote
====
